---- MODULE Spec2Model ----
(***************************************************************************)
(* State-machine model of the documentation-browser chat application:      *)
(*   App (top-level controller): knowledge groups, active group,           *)
(*     credential, model selection, transcript, the two request flags and  *)
(*     the suggestion list;                                                *)
(*   KnowledgeBaseManager: URL / file ingestion with its inline error;     *)
(*   ChatInterface: the send control.                                      *)
(* Every user event is one action; a handler and the React effects that    *)
(* its state updates trigger are committed together.  A remote call or a   *)
(* file-import batch in flight is an element of a set or list, and its       *)
(* continuation (the code after the await) is a separate action.           *)
(***************************************************************************)
EXTENDS Integers, Sequences, FiniteSets, TLC

\* ------------------------------------------------------------------ bounds
\* Number of accepted sends in one behaviour (each takes a fresh Date.now()).
MaxClock == 2
\* A send or a fetch is only started while the transcript has room for the
\* messages it may append.
MaxMsgs == 4
\* Suggestion fetches that may be in flight together.
MaxFetches == 2
\* Import batches that may be in flight together.
MaxImports == 2
\* images attached or being read
MaxAttached == 2

\* ------------------------------------------------------- program constants
MAX_SOURCES == 20

GEMINI_DOCS_URLS ==
  << "https://ai.google.dev/gemini-api/docs",
     "https://ai.google.dev/gemini-api/docs/quickstart",
     "https://ai.google.dev/gemini-api/docs/api-key",
     "https://ai.google.dev/gemini-api/docs/libraries",
     "https://ai.google.dev/gemini-api/docs/models",
     "https://ai.google.dev/gemini-api/docs/pricing",
     "https://ai.google.dev/gemini-api/docs/rate-limits",
     "https://ai.google.dev/gemini-api/docs/billing",
     "https://ai.google.dev/gemini-api/docs/changelog" >>

MODEL_CAPABILITIES_URLS ==
  << "https://ai.google.dev/gemini-api/docs/text-generation",
     "https://ai.google.dev/gemini-api/docs/image-generation",
     "https://ai.google.dev/gemini-api/docs/video",
     "https://ai.google.dev/gemini-api/docs/speech-generation",
     "https://ai.google.dev/gemini-api/docs/music-generation",
     "https://ai.google.dev/gemini-api/docs/long-context",
     "https://ai.google.dev/gemini-api/docs/structured-output",
     "https://ai.google.dev/gemini-api/docs/thinking",
     "https://ai.google.dev/gemini-api/docs/function-calling",
     "https://ai.google.dev/gemini-api/docs/document-processing",
     "https://ai.google.dev/gemini-api/docs/image-understanding",
     "https://ai.google.dev/gemini-api/docs/video-understanding",
     "https://ai.google.dev/gemini-api/docs/audio",
     "https://ai.google.dev/gemini-api/docs/code-execution",
     "https://ai.google.dev/gemini-api/docs/grounding" >>

\* A URL string is the sequence of its lexemes: whitespace characters and
\* maximal runs of non-whitespace, so that trim() and the URL parser's own
\* stripping of surrounding whitespace are computed.
Url(s) == << s >>

INITIAL_KNOWLEDGE_GROUPS ==
  << [id |-> "gemini-overview", name |-> "Gemini Docs Overview",
      urls |-> [i \in 1..Len(GEMINI_DOCS_URLS) |-> Url(GEMINI_DOCS_URLS[i])],
      files |-> << >>],
     [id |-> "model-capabilities", name |-> "Model Capabilities",
      urls |-> [i \in 1..Len(MODEL_CAPABILITIES_URLS) |-> Url(MODEL_CAPABILITIES_URLS[i])],
      files |-> << >>] >>

AVAILABLE_MODELS == << "gemini-2.5-pro", "gemini-2.5-flash", "gemini-2.5-flash-lite" >>

\* MessageSender
USER == "user"
MODEL == "model"
SYSTEM == "system"

\* ------------------------------------------------------------ input sets
\* Strings the user types are sequences of characters, so that trim() is
\* computed and not assumed.
WS == {" ", "\n", "\t"}

\* One attachable image (AttachedImage {name, dataUrl, type}).
Image1 == [name |-> "p.png", dataUrl |-> "data:image/png;base64,AAAA", type |-> "image/png"]

\* What is in the input box and in the attachment strip when the user sends.
SendInputs == { << << "h", "i" >>, << >> >>,
                << << " " >>, << >> >>,
                << << " " >>, << Image1 >> >> }

\* Image files offered to the attach button or pasted: the name and type of
\* the File and the data URL that reading it yields when the read succeeds.
ImageFileP == [name |-> "p.png", type |-> "image/png", dataUrl |-> "data:image/png;base64,AAAA"]
ImageFileQ == [name |-> "q.png", type |-> "image/png", dataUrl |-> "data:image/png;base64,BBBB"]
ImageSelections == { << ImageFileP, ImageFileQ >> }

\* Texts typed into the input box.
QueryInputs == { << "h", "i" >>, << " " >> }

\* Values typed into the credential field.
ApiKeyInputs == { << " " >>, << "k" >> }

\* Models the user picks in the model selector.
ModelInputs == { AVAILABLE_MODELS[1], AVAILABLE_MODELS[2] }

\* URLs typed into the add-URL field.
UrlInputs == { Url("https://x.test/doc") }

\* What can be in the add-URL field when Add is pressed: nothing, a blank, a
\* relative reference, a new URL (a listed one when entered again), and the
\* same URL after a blank.
UrlAttempts ==
  { << >>, << " " >>, << "docs/quickstart" >>,
    Url("https://x.test/doc"), << " ", "https://x.test/doc" >> }

\* Browser File objects: name as its dot-separated segments, text as read.
\* readable: the FileReader delivers the content (onload) and not onerror;
\* parses: the format library (mammoth / XLSX / pdf.js) accepts the bytes.
TextFile(base, ext, text) ==
  [name |-> << base, ext >>, text |-> text, readable |-> TRUE, parses |-> TRUE]

FileA1 == TextFile("a", "txt", "v1")
FileA2 == TextFile("a", "txt", "v2")
FileB == TextFile("b", "md", "b")
FileC == TextFile("c", "json", "c")
FileD == TextFile("d", "py", "d")
FileE == TextFile("e", "ts", "e")
FileF == TextFile("f", "txt", "f")

\* What one use of the file picker can return.
Selections == { << FileA2, FileF >>, << FileA1, FileB, FileC, FileD, FileE >> }

\* Files whose reading or extraction can fail, or whose format is not among
\* the handled ones.
FileDoc == TextFile("r", "doc", "r")
FileRtf == TextFile("n", "rtf", "n")
FileEmpty == TextFile("e", "txt", "")
FileDocx == TextFile("w", "docx", "w")
FilePdfBad == [name |-> << "p", "pdf" >>, text |-> "p", readable |-> TRUE, parses |-> FALSE]
FileUnreadable == [name |-> << "u", "md" >>, text |-> "u", readable |-> FALSE, parses |-> TRUE]

\* Selections that mix files that succeed with files that fail.
ReadSelections ==
  { << FileDoc, FileA1, FileRtf >>,
    << FileEmpty, FileA2, FilePdfBad, FileDocx, FileUnreadable >> }

\* ---------------------------------------------------------------- state
VARIABLES
  knowledgeGroups,          \* App: KnowledgeGroup[]
  activeGroupId,            \* App
  apiKey,                   \* App: credential, << >> when absent
  selectedModel,            \* App
  chatMessages,             \* App: the transcript
  isLoading,                \* App
  isFetchingSuggestions,    \* App
  initialQuerySuggestions,  \* App
  error,                    \* KnowledgeBaseManager: inline error or "null"
  sends,                    \* chat calls in flight: set of placeholder ids
  fetches,                  \* suggestion calls in flight, in start order: [gid]
  imports,                  \* import batches in flight, in start order: [gid, files]
  clock,                    \* Date.now(), advanced by every accepted send
  userQuery,                \* ChatInterface: the text in the input box
  attachedImages,           \* ChatInterface: AttachedImage[]
  imageReads,               \* addImages batches with a read in flight
  last                      \* history: the event this state results from

vars == << knowledgeGroups, activeGroupId, apiKey, selectedModel, chatMessages,
           isLoading, isFetchingSuggestions, initialQuerySuggestions, error,
           sends, fetches, imports, clock, userQuery, attachedImages,
           imageReads, last >>

\* the state of ChatInterface
inputVars == << userQuery, attachedImages, imageReads >>

\* -------------------------------------------------------------- helpers
\* String.prototype.trim on a sequence of characters.
RECURSIVE trimStart(_)
trimStart(s) ==
  IF s # << >> /\ Head(s) \in WS THEN trimStart(Tail(s)) ELSE s

RECURSIVE trimEnd(_)
trimEnd(s) ==
  IF s # << >> /\ s[Len(s)] \in WS THEN trimEnd(SubSeq(s, 1, Len(s) - 1)) ELSE s

trim(s) == trimEnd(trimStart(s))

\* Array.prototype.includes
includes(arr, x) == \E i \in 1..Len(arr) : arr[i] = x

\* Array.prototype.filter with a predicate on (element, index).
filter(arr, keep(_, _)) ==
  LET F[i \in 0..Len(arr)] ==
        IF i = 0 THEN << >>
        ELSE IF keep(arr[i], i) THEN Append(F[i - 1], arr[i]) ELSE F[i - 1]
  IN F[Len(arr)]

\* Array.prototype.findIndex (indices from 1; 0 when none matches).
findIndex(arr, test(_)) ==
  IF \E i \in 1..Len(arr) : test(arr[i])
  THEN CHOOSE i \in 1..Len(arr) : test(arr[i]) /\ \A j \in 1..(i - 1) : ~test(arr[j])
  ELSE 0

\* Array.prototype.map
map(arr, f(_)) == [i \in 1..Len(arr) |-> f(arr[i])]

\* sequence without its i-th element
RemoveAt(s, i) == SubSeq(s, 1, i - 1) \o SubSeq(s, i + 1, Len(s))

\* knowledgeGroups.find(group => group.id === gid)
FindGroup(groups, gid) == groups[findIndex(groups, LAMBDA g : g.id = gid)]

GroupIds == { INITIAL_KNOWLEDGE_GROUPS[i].id : i \in 1..Len(INITIAL_KNOWLEDGE_GROUPS) }

totalSourcesOf(group) == Len(group.urls) + Len(group.files)

\* ----------------------------------------------------- App: group handlers
\* handleAddFiles without the de-duplication: every new file is appended.
AddFilesKeepAll(groups, gid, newFiles) ==
  map(groups, LAMBDA group :
        IF group.id = gid
        THEN [group EXCEPT !.files = group.files \o newFiles]
        ELSE group)

\* handleAddFiles keeping the last occurrence of a name instead of the first.
AddFilesLastWins(groups, gid, newFiles) ==
  map(groups, LAMBDA group :
        IF group.id = gid
        THEN LET combinedFiles == group.files \o newFiles
             IN [group EXCEPT !.files =
                   filter(combinedFiles, LAMBDA file, index :
                     \A j \in (index + 1)..Len(combinedFiles) :
                        combinedFiles[j].name # file.name)]
        ELSE group)

\* App.handleAddUrl: the state updater passed to setKnowledgeGroups.
AppHandleAddUrl(groups, gid, url) ==
  map(groups, LAMBDA group :
        IF group.id = gid
           /\ totalSourcesOf(group) < MAX_SOURCES
           /\ ~includes(group.urls, url)
        THEN [group EXCEPT !.urls = Append(group.urls, url)]
        ELSE group)

\* App.handleRemoveUrl
AppHandleRemoveUrl(groups, gid, urlToRemove) ==
  map(groups, LAMBDA group :
        IF group.id = gid
        THEN [group EXCEPT !.urls = filter(group.urls, LAMBDA url, i : url # urlToRemove)]
        ELSE group)

\* App.handleAddFiles
AppHandleAddFiles(groups, gid, newFiles) ==
  map(groups, LAMBDA group :
        IF group.id = gid
        THEN LET combinedFiles == group.files \o newFiles
                 uniqueFiles ==
                   filter(combinedFiles, LAMBDA file, index :
                     index = findIndex(combinedFiles, LAMBDA f : f.name = file.name))
             IN [group EXCEPT !.files = uniqueFiles]
        ELSE group)

\* App.handleRemoveFile
AppHandleRemoveFile(groups, gid, fileNameToRemove) ==
  map(groups, LAMBDA group :
        IF group.id = gid
        THEN [group EXCEPT !.files =
                filter(group.files, LAMBDA file, i : file.name # fileNameToRemove)]
        ELSE group)

\* ------------------------------------------------------------- messages
ChatMessage(id, sender, text, loading, images, urlContext) ==
  [id |-> id, sender |-> sender, text |-> text, isLoading |-> loading,
   images |-> images, urlContext |-> urlContext]

\* an id `${prefix}-${sub}-${Date.now()}`
MsgId(prefix, sub, t) == << prefix, sub, t >>

SystemMessage(prefix, sub, t, text) ==
  ChatMessage(MsgId(prefix, sub, t), SYSTEM, text, FALSE, << >>, << >>)

\* the message the welcome effect installs
WelcomeMessage(groups, gid, key, t) ==
  SystemMessage("system-welcome", gid, t,
    IF key = << >>
    THEN << "Welcome! Please enter your Gemini API key in the Knowledge Base panel to begin." >>
    ELSE << "Welcome to Documentation Browser! You're currently browsing content from: ",
            FindGroup(groups, gid).name >>)

userMessage(query, images, t) ==
  ChatMessage(MsgId("user", "", t), USER, query,
              FALSE, map(images, LAMBDA img : img.dataUrl), << >>)

modelPlaceholderMessage(t) ==
  ChatMessage(MsgId("model-response", "", t), MODEL, << "Thinking..." >>, TRUE, << >>, << >>)

\* ------------------------------------------------------ remote responses
\* generateContentWithUrlContext: a result {text, urlContextMetadata} or a throw.
SendResponses ==
  { [ok |-> TRUE, text |-> << "o", "k" >>,
     urlContextMetadata |-> << [retrievedUrl |-> "https://x.test/doc",
                                urlRetrievalStatus |-> "URL_RETRIEVAL_STATUS_SUCCESS"] >>,
     message |-> << >>],
    [ok |-> FALSE, text |-> << >>, urlContextMetadata |-> << >>,
     message |-> << "quota" >>] }

\* The text of a suggestion response is a sequence of lexemes: the fence
\* "```", a line break, a blank, a word (a run of \w characters), another
\* single character, or the text of one JSON value.
Lexeme(lex, val) == [lex |-> lex, val |-> val]
FENCE == Lexeme("fence", << >>)
NL == Lexeme("nl", << >>)
SP == Lexeme("sp", << >>)
Word(w) == Lexeme("word", << w >>)
Punct(c) == Lexeme("punct", << c >>)

\* A JSON value as JSON.parse returns it: its kind ("object", "array",
\* "null", ...); for an object, hasArray tells whether .suggestions is an
\* array and items are the array's entries, each with its JavaScript type.
SuggestionText(kind, hasArray, items) ==
  [kind |-> kind, hasArray |-> hasArray, items |-> items]
Json(value) == Lexeme("json", << value >>)

\* getInitialSuggestions: a result {text} or a throw.
OkText(text) == [ok |-> TRUE, text |-> text, message |-> << >>]
Thrown(message) == [ok |-> FALSE, text |-> << >>, message |-> message]

SuggestionResponses ==
  { Thrown(<< "network" >>),
    OkText(<< Json(SuggestionText("object", TRUE,
                << [type |-> "string", value |-> << " " >>],
                   [type |-> "string", value |-> << "A", "?" >>] >>)) >>) }

\* {"suggestions": [...]} with six entries, one of them not a string
SuggestionsJson ==
  << Json(SuggestionText("object", TRUE,
       << [type |-> "string", value |-> << "A", "?" >>],
          [type |-> "number", value |-> << "7" >>],
          [type |-> "string", value |-> << "B", "?" >>],
          [type |-> "string", value |-> << "C", "?" >>],
          [type |-> "string", value |-> << "D", "?" >>],
          [type |-> "string", value |-> << "E", "?" >>] >>)) >>

\* the language tags json, c++ and none
LanguageTags ==
  { << >>, << Word("json") >>, << Word("c"), Punct("+"), Punct("+") >> }

\* "```T\nJ\n```"
Fenced(tag, body) == << FENCE >> \o tag \o << NL >> \o body \o << NL, FENCE >>

\* texts that are not JSON of an object with an array-valued suggestions
\* field: no text, a blank, prose, null, an array, an object without the
\* field, an object whose field is a string, and fenced prose
NonConformingTexts ==
  { << >>,
    << SP >>,
    << Word("Sorry") >>,
    << Json(SuggestionText("null", FALSE, << >>)) >>,
    << Json(SuggestionText("array", FALSE, << >>)) >>,
    << Json(SuggestionText("object", FALSE, << >>)) >>,
    Fenced(<< Word("json") >>, << Word("Sorry") >>) }

\* what the remote model can answer to a suggestion request
ParseResponses ==
  { Thrown(<< "network" >>), OkText(<< SP >> \o SuggestionsJson \o << NL >>) }
    \cup { OkText(t) : t \in NonConformingTexts }
    \cup { OkText(Fenced(tag, SuggestionsJson)) : tag \in LanguageTags }

\* --------------------------------------------- KnowledgeBaseManager: pure
NoError == [kind |-> "null", detail |-> << >>]
Err(kind, detail) == [kind |-> kind, detail |-> detail]

\* lexemes the URL parser accepts as an absolute URL
AbsoluteUrls ==
  { GEMINI_DOCS_URLS[i] : i \in 1..Len(GEMINI_DOCS_URLS) }
    \cup { MODEL_CAPABILITIES_URLS[i] : i \in 1..Len(MODEL_CAPABILITIES_URLS) }
    \cup { "https://x.test/doc" }

\* isValidUrl: new URL(urlString) does not throw.  The parser strips leading
\* and trailing whitespace and rejects whitespace inside.
isValidUrl(urlString) ==
  LET t == trim(urlString) IN Len(t) = 1 /\ t[1] \in AbsoluteUrls

\* handleAddUrl without the test for a URL that is already listed.
addUrlErrorNoDupCheck(currentUrlInput, urls, totalSources, maxSources) ==
  IF trim(currentUrlInput) = << >> THEN "url-empty"
  ELSE IF ~isValidUrl(currentUrlInput) THEN "url-invalid"
  ELSE IF totalSources >= maxSources THEN "url-max"
  ELSE "null"

\* KnowledgeBaseManager.handleAddUrl: the error its checks end in, "null" when
\* the URL is passed on to onAddUrl.
addUrlError(currentUrlInput, urls, totalSources, maxSources) ==
  IF trim(currentUrlInput) = << >> THEN "url-empty"
  ELSE IF ~isValidUrl(currentUrlInput) THEN "url-invalid"
  ELSE IF totalSources >= maxSources THEN "url-max"
  ELSE IF includes(urls, currentUrlInput) THEN "url-dup"
  ELSE "null"

\* handleFileChange: the selected files whose name is not yet in the group
filesToProcess(selectedFiles, files) ==
  filter(selectedFiles, LAMBDA file, i :
    ~\E j \in 1..Len(files) : files[j].name = file.name)

\* handleFileChange compared the raw selection with the cap, not the new files.
fileChangeErrorLax(selectedFiles, files, totalSources, maxSources) ==
  IF totalSources >= maxSources THEN "files-max"
  ELSE IF totalSources + Len(filesToProcess(selectedFiles, files)) > maxSources + 1
       THEN "files-exceed"
  ELSE "null"

\* handleFileChange: the error its two cap checks end in, "null" when the
\* batch is admitted.
fileChangeError(selectedFiles, files, totalSources, maxSources) ==
  IF totalSources >= maxSources THEN "files-max"
  ELSE IF totalSources + Len(filesToProcess(selectedFiles, files)) > maxSources
       THEN "files-exceed"
  ELSE "null"

\* String.prototype.toLowerCase on the extensions that occur
toLowerCase(s) ==
  CASE s = "TXT" -> "txt" [] s = "PDF" -> "pdf" [] s = "DOC" -> "doc" [] OTHER -> s

\* file.name.split('.').pop()?.toLowerCase()
fileExtension(file) == toLowerCase(file.name[Len(file.name)])

\* One read promise of handleFileChange: fulfilled with a ManagedFile or
\* rejected with a message.
readPromise(file) ==
  LET ext == fileExtension(file)
      binary == ext \in {"docx", "xlsx", "pdf"}
      resolve(t) == [ok |-> TRUE, value |-> [name |-> file.name, content |-> t],
                     message |-> << >>]
      reject(m) == [ok |-> FALSE, value |-> [name |-> file.name, content |-> ""],
                    message |-> << m, file.name >>]
  IN IF ~file.readable THEN reject("Error reading")
     ELSE IF ~binary /\ file.text = "" THEN reject("Could not read")
     ELSE CASE ext = "docx" -> IF file.parses THEN resolve(file.text)
                               ELSE reject("Failed to process")
            [] ext = "xlsx" -> IF file.parses THEN resolve(file.text)
                               ELSE reject("Failed to process")
            [] ext = "pdf" -> IF file.parses THEN resolve(file.text)
                              ELSE reject("Failed to parse PDF")
            [] ext \in {"doc", "pptx"} -> reject("is not supported")
            [] OTHER -> resolve(file.text)

\* ----------------------------------------------------------- App: pure
\* handleSendMessage's first line without the isLoading test.
sendIgnoredNoLoadingTest(query, images, loading, fetching) ==
  (trim(query) = << >> /\ Len(images) = 0) \/ fetching

\* handleSendMessage's first line testing the query untrimmed.
sendIgnoredNoTrim(query, images, loading, fetching) ==
  (query = << >> /\ Len(images) = 0) \/ loading \/ fetching

\* handleSendMessage: the condition of its first line (the call is ignored)
sendIgnored(query, images, loading, fetching) ==
  (trim(query) = << >> /\ Len(images) = 0) \/ loading \/ fetching

\* ChatInterface.handleSend: the condition under which it returns at once
handleSendReturns(query, images, isLoadingProp) ==
  (query = << >> /\ Len(images) = 0) \/ isLoadingProp

\* the catch branch forgetting to clear the loading flag
settledMessageKeepsLoading(placeholder, response) ==
  IF response.ok
  THEN [placeholder EXCEPT
          !.text = IF response.text # << >> THEN response.text
                   ELSE << "I received an empty response." >>,
          !.isLoading = FALSE,
          !.urlContext = response.urlContextMetadata]
  ELSE [placeholder EXCEPT
          !.text = << "Error: " >> \o response.message,
          !.sender = SYSTEM]

\* the settle dropping the URL metadata of a successful response
settledMessageNoMetadata(placeholder, response) ==
  IF response.ok
  THEN [placeholder EXCEPT
          !.text = IF response.text # << >> THEN response.text
                   ELSE << "I received an empty response." >>,
          !.isLoading = FALSE]
  ELSE [placeholder EXCEPT
          !.text = << "Error: " >> \o
                   (IF response.message # << >> THEN response.message
                    ELSE << "Failed to get response from AI." >>),
          !.sender = SYSTEM,
          !.isLoading = FALSE]

\* handleSendMessage after the await: what replaces the placeholder
settledMessage(placeholder, response) ==
  IF response.ok
  THEN [placeholder EXCEPT
          !.text = IF response.text # << >> THEN response.text
                   ELSE << "I received an empty response." >>,
          !.isLoading = FALSE,
          !.urlContext = response.urlContextMetadata]
  ELSE [placeholder EXCEPT
          !.text = << "Error: " >> \o
                   (IF response.message # << >> THEN response.message
                    ELSE << "Failed to get response from AI." >>),
          !.sender = SYSTEM,
          !.isLoading = FALSE]

\* the settle appending the terminal message instead of replacing by id
appendSettled(messages, placeholder, response) ==
  Append(messages, settledMessage(placeholder, response))

\* the settle appending the terminal message when the placeholder is gone
replacePlaceholderOrAppend(messages, placeholder, response) ==
  IF \E i \in 1..Len(messages) : messages[i].id = placeholder.id
  THEN map(messages, LAMBDA msg :
             IF msg.id = placeholder.id THEN settledMessage(placeholder, response) ELSE msg)
  ELSE Append(messages, settledMessage(placeholder, response))

\* handleSendMessage after the await: the updater passed to setChatMessages
replacePlaceholder(messages, placeholder, response) ==
  map(messages, LAMBDA msg :
        IF msg.id = placeholder.id THEN settledMessage(placeholder, response) ELSE msg)

\* slice without its end index
sliceAll(arr, n) == arr

\* Array.prototype.slice(0, n)
slice(arr, n) == SubSeq(arr, 1, IF Len(arr) < n THEN Len(arr) ELSE n)

\* String.prototype.trim on a sequence of lexemes
isSpace(x) == x.lex \in { "sp", "nl" }
RECURSIVE trimTextStart(_)
trimTextStart(s) ==
  IF s # << >> /\ isSpace(Head(s)) THEN trimTextStart(Tail(s)) ELSE s
RECURSIVE trimTextEnd(_)
trimTextEnd(s) ==
  IF s # << >> /\ isSpace(s[Len(s)]) THEN trimTextEnd(SubSeq(s, 1, Len(s) - 1)) ELSE s
trimText(s) == trimTextEnd(trimTextStart(s))

\* jsonStr.match(/^```(\w*)?\s*\n?(.*?)\n?\s*```$/s): whether the text
\* matches and its second group.  (\w*) takes a word that follows the opening
\* fence, \s* every blank and line break after it, and the lazy group what is
\* left up to the blanks before the closing fence.
fenceMatch(s) ==
  IF Len(s) >= 2 /\ s[1] = FENCE /\ s[Len(s)] = FENCE
  THEN LET inner == SubSeq(s, 2, Len(s) - 1)
           afterTag == IF inner # << >> /\ inner[1].lex = "word" THEN Tail(inner) ELSE inner
       IN [matched |-> TRUE, group2 |-> trimText(afterTag)]
  ELSE [matched |-> FALSE, group2 |-> << >>]

\* JSON.parse: the value of a text that is one JSON value, possibly between
\* blanks; a throw otherwise.
JSONparse(s) ==
  LET t == trimText(s)
  IN IF Len(t) = 1 /\ t[1].lex = "json"
     THEN [ok |-> TRUE, value |-> t[1].val[1]]
     ELSE [ok |-> FALSE, value |-> SuggestionText("undefined", FALSE, << >>)]

\* fetchAndSetInitialSuggestions after the await, for a response that did not
\* throw: the suggestion list and the warning ("" when none).
parseSuggestions(text) ==
  IF text = << >> THEN [list |-> << >>, warn |-> ""]
  ELSE LET trimmed == trimText(text)
           match == fenceMatch(trimmed)
           jsonStr == IF match.matched /\ match.group2 # << >>
                      THEN trimText(match.group2) ELSE trimmed
           parsed == JSONparse(jsonStr)
       IN IF ~parsed.ok THEN [list |-> << >>, warn |-> "sys-err-suggestion-parse"]
          ELSE IF parsed.value.kind # "null" /\ parsed.value.hasArray
          THEN [list |-> slice(map(filter(parsed.value.items, LAMBDA x, i : x.type = "string"),
                                   LAMBDA x : x.value), 4),
                warn |-> ""]
          ELSE [list |-> << >>, warn |-> "sys-err-suggestion-fmt"]

\* showSuggestions looking at the suggestion list only.
showSuggestionsAnyTranscript(suggestions, messages) ==
  Len(suggestions) > 0

\* ChatInterface: showSuggestions
showSuggestions(suggestions, messages) ==
  /\ Len(suggestions) > 0
  /\ Cardinality({ i \in 1..Len(messages) : messages[i].sender # SYSTEM }) <= 1

\* ------------------------------------------------------------- effects
currentGroup == FindGroup(knowledgeGroups, activeGroupId)
currentUrls == currentGroup.urls
currentFiles == currentGroup.files

\* History.  A send attempt that is ignored and an import commit that adds
\* nothing leave no trace in the program state; `last` records these two kinds
\* of event with their arguments until the next event, and is NoEvent after
\* every other event.
Event(op, arg) == [op |-> op, arg |-> arg]
NoEvent == Event("none", << >>)

\* Bound: every fetch in flight may still append one message, so a step that
\* adds n messages (now or when its call settles) needs room for them.
HasRoom(messages, n) == Len(messages) + Len(fetches) + n <= MaxMsgs

\* the welcome effect appending its message instead of replacing the
\* transcript
EffectsAppendWelcome(groups, gid, key, model, welcomeRuns, suggestRuns) ==
  LET group == FindGroup(groups, gid)
      start == /\ suggestRuns
               /\ (Len(group.urls) > 0 \/ Len(group.files) > 0)
               /\ key # << >>
  IN /\ chatMessages' = IF welcomeRuns
                        THEN Append(chatMessages, WelcomeMessage(groups, gid, key, clock))
                        ELSE chatMessages
     /\ start => Len(fetches) < MaxFetches
     /\ initialQuerySuggestions' = IF suggestRuns THEN << >> ELSE initialQuerySuggestions
     /\ isFetchingSuggestions' = IF start THEN TRUE ELSE isFetchingSuggestions
     /\ fetches' = IF start THEN Append(fetches, [gid |-> gid])
                   ELSE fetches

\* The two effects of App that follow a commit whose new state is
\* (groups, gid, key, model):
\*   welcomeRuns: activeGroupId, knowledgeGroups or apiKey changed identity;
\*   suggestRuns: currentUrls, currentFiles, selectedModel or apiKey changed.
\* The welcome effect replaces the transcript; the suggestion effect clears the
\* suggestion list and, with sources and a credential, starts a fetch.
Effects(groups, gid, key, model, welcomeRuns, suggestRuns) ==
  LET group == FindGroup(groups, gid)
      start == /\ suggestRuns
               /\ (Len(group.urls) > 0 \/ Len(group.files) > 0)
               /\ key # << >>
  IN /\ chatMessages' = IF welcomeRuns
                        THEN << WelcomeMessage(groups, gid, key, clock) >>
                        ELSE chatMessages
     /\ start => Len(fetches) < MaxFetches /\ HasRoom(chatMessages', 1)
     /\ initialQuerySuggestions' = IF suggestRuns THEN << >> ELSE initialQuerySuggestions
     /\ isFetchingSuggestions' = IF start THEN TRUE ELSE isFetchingSuggestions
     /\ fetches' = IF start THEN Append(fetches, [gid |-> gid])
                   ELSE fetches

\* ---------------------------------------------------------------- Init
\* The state after the first render and its effects; the credential is
\* whatever localStorage held.
Init ==
  /\ knowledgeGroups = INITIAL_KNOWLEDGE_GROUPS
  /\ activeGroupId = INITIAL_KNOWLEDGE_GROUPS[1].id
  /\ apiKey \in { << >>, << "k" >> }
  /\ selectedModel = AVAILABLE_MODELS[2]
  /\ chatMessages = << WelcomeMessage(knowledgeGroups, activeGroupId, apiKey, 0) >>
  /\ isLoading = FALSE
  /\ isFetchingSuggestions = (apiKey # << >>)
  /\ initialQuerySuggestions = << >>
  /\ error = NoError
  /\ sends = {}
  /\ fetches = IF apiKey # << >>
               THEN << [gid |-> activeGroupId] >>
               ELSE << >>
  /\ imports = << >>
  /\ clock = 0
  /\ userQuery = << >>
  /\ attachedImages = << >>
  /\ imageReads = << >>
  /\ last = NoEvent

\* ------------------------------------------------------ App: user events
\* the group selector: onSetGroupId
SetActiveGroupId(gid) ==
  /\ gid # activeGroupId
  /\ activeGroupId' = gid
  /\ Effects(knowledgeGroups, gid, apiKey, selectedModel, TRUE, TRUE)
  /\ last' = NoEvent
  /\ UNCHANGED inputVars
  /\ UNCHANGED << knowledgeGroups, apiKey, selectedModel, isLoading, error,
                  sends, imports, clock >>

\* KnowledgeBaseManager.handleSaveApiKey
handleSaveApiKey(apiKeyInput) ==
  /\ trim(apiKeyInput) # apiKey
  /\ apiKey' = trim(apiKeyInput)
  /\ Effects(knowledgeGroups, activeGroupId, trim(apiKeyInput), selectedModel, TRUE, TRUE)
  /\ last' = NoEvent
  /\ UNCHANGED inputVars
  /\ UNCHANGED << knowledgeGroups, activeGroupId, selectedModel, isLoading, error,
                  sends, imports, clock >>

\* the model selector: onSetModel
SetSelectedModel(m) ==
  /\ m # selectedModel
  /\ selectedModel' = m
  /\ Effects(knowledgeGroups, activeGroupId, apiKey, m, FALSE, TRUE)
  /\ last' = NoEvent
  /\ UNCHANGED inputVars
  /\ UNCHANGED << knowledgeGroups, activeGroupId, apiKey, isLoading, error,
                  sends, imports, clock >>

\* KnowledgeBaseManager.handleAddUrl with the typed text, and App.handleAddUrl
\* when the checks pass.
handleAddUrl(currentUrlInput) ==
  LET e == addUrlError(currentUrlInput, currentUrls, totalSourcesOf(currentGroup),
                       MAX_SOURCES)
      groups == AppHandleAddUrl(knowledgeGroups, activeGroupId, currentUrlInput)
  IN /\ last' = NoEvent
     /\ IF e # "null"
        THEN /\ error' = Err(e, << >>)
             /\ UNCHANGED << knowledgeGroups, chatMessages, initialQuerySuggestions,
                             isFetchingSuggestions, fetches >>
        ELSE /\ error' = NoError
             /\ knowledgeGroups' = groups
             /\ Effects(groups, activeGroupId, apiKey, selectedModel, TRUE,
                        FindGroup(groups, activeGroupId).urls # currentUrls)
     /\ UNCHANGED inputVars
     /\ UNCHANGED << activeGroupId, apiKey, selectedModel, isLoading, sends,
                     imports, clock >>

\* the remove button of a listed URL: App.handleRemoveUrl
handleRemoveUrl(urlToRemove) ==
  LET groups == AppHandleRemoveUrl(knowledgeGroups, activeGroupId, urlToRemove)
  IN /\ includes(currentUrls, urlToRemove)
     /\ knowledgeGroups' = groups
     /\ Effects(groups, activeGroupId, apiKey, selectedModel, TRUE, TRUE)
     /\ last' = NoEvent
     /\ UNCHANGED inputVars
     /\ UNCHANGED << activeGroupId, apiKey, selectedModel, isLoading, error, sends,
                     imports, clock >>

\* the remove button of a listed file: App.handleRemoveFile
handleRemoveFile(fileNameToRemove) ==
  LET groups == AppHandleRemoveFile(knowledgeGroups, activeGroupId, fileNameToRemove)
  IN /\ \E i \in 1..Len(currentFiles) : currentFiles[i].name = fileNameToRemove
     /\ knowledgeGroups' = groups
     /\ Effects(groups, activeGroupId, apiKey, selectedModel, TRUE, TRUE)
     /\ last' = NoEvent
     /\ UNCHANGED inputVars
     /\ UNCHANGED << activeGroupId, apiKey, selectedModel, isLoading, error, sends,
                     imports, clock >>

\* handleFileChange adding the files that can be read to the group at once,
\* before the batch has settled.
handleFileChangeEager(selectedFiles) ==
  LET e == fileChangeError(selectedFiles, currentFiles, totalSourcesOf(currentGroup),
                           MAX_SOURCES)
      batch == filesToProcess(selectedFiles, currentFiles)
      results == map(batch, readPromise)
      successfulFiles == map(filter(results, LAMBDA r, k : r.ok), LAMBDA r : r.value)
  IN /\ Len(selectedFiles) > 0
     /\ last' = NoEvent
     /\ IF e # "null"
        THEN /\ error' = Err(e, << >>)
             /\ UNCHANGED << imports, knowledgeGroups >>
        ELSE /\ error' = NoError
             /\ Len(batch) > 0 => Len(imports) < MaxImports
             /\ imports' = IF Len(batch) > 0
                           THEN Append(imports, [gid |-> activeGroupId, files |-> batch])
                           ELSE imports
             /\ knowledgeGroups' = AppHandleAddFiles(knowledgeGroups, activeGroupId,
                                                     successfulFiles)
     /\ UNCHANGED inputVars
     /\ UNCHANGED << activeGroupId, apiKey, selectedModel,
                     chatMessages, isLoading, isFetchingSuggestions,
                     initialQuerySuggestions, sends, fetches, clock >>

\* ---------------------------------------------------------- file import
\* KnowledgeBaseManager.handleFileChange up to its await: the cap checks, and
\* for an admitted batch the start of the reads.  The batch keeps what the
\* handler's closure holds: onAddFiles of this render (which adds to the group
\* active now) and the files to process.
handleFileChange(selectedFiles) ==
  LET e == fileChangeError(selectedFiles, currentFiles, totalSourcesOf(currentGroup),
                           MAX_SOURCES)
      batch == filesToProcess(selectedFiles, currentFiles)
  IN /\ Len(selectedFiles) > 0
     /\ last' = NoEvent
     /\ IF e # "null"
        THEN /\ error' = Err(e, << >>)
             /\ imports' = imports
        ELSE /\ error' = NoError
             /\ Len(batch) > 0 => Len(imports) < MaxImports
             /\ imports' = IF Len(batch) > 0
                           THEN Append(imports, [gid |-> activeGroupId, files |-> batch])
                           ELSE imports
     /\ UNCHANGED inputVars
     /\ UNCHANGED << knowledgeGroups, activeGroupId, apiKey, selectedModel,
                     chatMessages, isLoading, isFetchingSuggestions,
                     initialQuerySuggestions, sends, fetches, clock >>

\* handleFileChange committing a batch only when none of its files failed.
importSettlesAllOrNothing(i) ==
  LET batch == imports[i]
      results == map(batch.files, readPromise)
      successfulFiles == map(filter(results, LAMBDA r, k : r.ok), LAMBDA r : r.value)
      errorMessages == map(filter(results, LAMBDA r, k : ~r.ok), LAMBDA r : r.message)
      groups == AppHandleAddFiles(knowledgeGroups, batch.gid, successfulFiles)
  IN /\ imports' = RemoveAt(imports, i)
     /\ last' = Event("importSettles", << batch.gid, successfulFiles >>)
     /\ error' = IF Len(errorMessages) > 0 THEN Err("import-errors", errorMessages)
                 ELSE error
     /\ IF Len(successfulFiles) > 0 /\ Len(errorMessages) = 0
        THEN /\ knowledgeGroups' = groups
             /\ Effects(groups, activeGroupId, apiKey, selectedModel, TRUE,
                        batch.gid = activeGroupId)
        ELSE UNCHANGED << knowledgeGroups, chatMessages, initialQuerySuggestions,
                          isFetchingSuggestions, fetches >>
     /\ UNCHANGED inputVars
     /\ UNCHANGED << activeGroupId, apiKey, selectedModel, isLoading, sends, clock >>

\* the commit of a batch going to the group that is active when it settles
importSettlesIntoActive(i) ==
  LET batch == imports[i]
      results == map(batch.files, readPromise)
      successfulFiles == map(filter(results, LAMBDA r, k : r.ok), LAMBDA r : r.value)
      errorMessages == map(filter(results, LAMBDA r, k : ~r.ok), LAMBDA r : r.message)
      groups == AppHandleAddFiles(knowledgeGroups, activeGroupId, successfulFiles)
  IN /\ imports' = RemoveAt(imports, i)
     /\ last' = Event("importSettles", << batch.gid, successfulFiles >>)
     /\ error' = IF Len(errorMessages) > 0 THEN Err("import-errors", errorMessages)
                 ELSE error
     /\ IF Len(successfulFiles) > 0
        THEN /\ knowledgeGroups' = groups
             /\ Effects(groups, activeGroupId, apiKey, selectedModel, TRUE,
                        batch.gid = activeGroupId)
        ELSE UNCHANGED << knowledgeGroups, chatMessages, initialQuerySuggestions,
                          isFetchingSuggestions, fetches >>
     /\ UNCHANGED inputVars
     /\ UNCHANGED << activeGroupId, apiKey, selectedModel, isLoading, sends, clock >>

\* handleFileChange after Promise.allSettled: the i-th batch in flight commits
\* its successful files through the captured onAddFiles and reports the rest.
importSettles(i) ==
  LET batch == imports[i]
      results == map(batch.files, readPromise)
      successfulFiles == map(filter(results, LAMBDA r, k : r.ok), LAMBDA r : r.value)
      errorMessages == map(filter(results, LAMBDA r, k : ~r.ok), LAMBDA r : r.message)
      groups == AppHandleAddFiles(knowledgeGroups, batch.gid, successfulFiles)
  IN /\ imports' = RemoveAt(imports, i)
     /\ last' = Event("importSettles", << batch.gid, successfulFiles >>)
     /\ error' = IF Len(errorMessages) > 0 THEN Err("import-errors", errorMessages)
                 ELSE error
     /\ IF Len(successfulFiles) > 0
        THEN /\ knowledgeGroups' = groups
             /\ Effects(groups, activeGroupId, apiKey, selectedModel, TRUE,
                        batch.gid = activeGroupId)
        ELSE UNCHANGED << knowledgeGroups, chatMessages, initialQuerySuggestions,
                          isFetchingSuggestions, fetches >>
     /\ UNCHANGED inputVars
     /\ UNCHANGED << activeGroupId, apiKey, selectedModel, isLoading, sends, clock >>

\* ------------------------------------------------------------------ chat
\* handleSendMessage without its credential check: the call is prepared and
\* issued whatever the credential.
handleSendMessageNoKeyCheck(query, images) ==
  IF sendIgnored(query, images, isLoading, isFetchingSuggestions)
  THEN UNCHANGED << chatMessages, isLoading, initialQuerySuggestions, sends, clock >>
  ELSE /\ clock < MaxClock
       /\ HasRoom(chatMessages, 2)
       /\ clock' = clock + 1
       /\ isLoading' = TRUE
       /\ initialQuerySuggestions' = << >>
       /\ chatMessages' = chatMessages \o
            << userMessage(query, images, clock + 1), modelPlaceholderMessage(clock + 1) >>
       /\ sends' = sends \cup { clock + 1 }

\* App.handleSendMessage up to its await.
handleSendMessage(query, images) ==
  IF sendIgnored(query, images, isLoading, isFetchingSuggestions)
  THEN UNCHANGED << chatMessages, isLoading, initialQuerySuggestions, sends, clock >>
  ELSE IF apiKey = << >>
  THEN /\ HasRoom(chatMessages, 1)
       /\ chatMessages' = Append(chatMessages,
            SystemMessage("error-apikey", "", clock,
              << "ERROR: API Key is not set. Please add it in the Knowledge Base panel to send messages." >>))
       /\ UNCHANGED << isLoading, initialQuerySuggestions, sends, clock >>
  ELSE /\ clock < MaxClock
       /\ HasRoom(chatMessages, 2)
       /\ clock' = clock + 1
       /\ isLoading' = TRUE
       /\ initialQuerySuggestions' = << >>
       /\ chatMessages' = chatMessages \o
            << userMessage(query, images, clock + 1), modelPlaceholderMessage(clock + 1) >>
       /\ sends' = sends \cup { clock + 1 }

\* ChatInterface.handleSend with the typed text and the attached images given
\* as inputs of the event (the input box is empty before and after); the
\* isLoading prop is !apiKey || isLoading.
handleSend(typed, images) ==
  /\ last' = Event("handleSend", << typed, images >>)
  /\ IF handleSendReturns(trim(typed), images, apiKey = << >> \/ isLoading)
     THEN UNCHANGED << chatMessages, isLoading, initialQuerySuggestions, sends, clock >>
     ELSE handleSendMessage(trim(typed), images)
  /\ UNCHANGED inputVars
  /\ UNCHANGED << knowledgeGroups, activeGroupId, apiKey, selectedModel,
                  isFetchingSuggestions, error, fetches, imports >>

\* a click on the k-th displayed suggestion: handleSuggestedQueryClick
handleSuggestedQueryClick(k) ==
  /\ showSuggestions(initialQuerySuggestions, chatMessages)
  /\ k \in 1..Len(initialQuerySuggestions)
  /\ last' = Event("handleSuggestedQueryClick", << initialQuerySuggestions[k], << >> >>)
  /\ handleSendMessage(initialQuerySuggestions[k], << >>)
  /\ UNCHANGED inputVars
  /\ UNCHANGED << knowledgeGroups, activeGroupId, apiKey, selectedModel,
                  isFetchingSuggestions, error, fetches, imports >>

\* the settle without its finally block: a failed call leaves isLoading set
sendSettlesNoFinally(t, response) ==
  /\ t \in sends
  /\ sends' = sends \ { t }
  /\ chatMessages' = replacePlaceholder(chatMessages, modelPlaceholderMessage(t), response)
  /\ isLoading' = IF response.ok THEN FALSE ELSE isLoading
  /\ last' = NoEvent
  /\ UNCHANGED inputVars
  /\ UNCHANGED << knowledgeGroups, activeGroupId, apiKey, selectedModel,
                  isFetchingSuggestions, initialQuerySuggestions, error, fetches,
                  imports, clock >>

\* handleSendMessage after its await: the call of the send made at time t
\* settles with `response`.
sendSettles(t, response) ==
  /\ t \in sends
  /\ sends' = sends \ { t }
  /\ chatMessages' = replacePlaceholder(chatMessages, modelPlaceholderMessage(t), response)
  /\ isLoading' = FALSE
  /\ last' = NoEvent
  /\ UNCHANGED inputVars
  /\ UNCHANGED << knowledgeGroups, activeGroupId, apiKey, selectedModel,
                  isFetchingSuggestions, initialQuerySuggestions, error, fetches,
                  imports, clock >>

\* fetchAndSetInitialSuggestions after its await: the i-th fetch in flight
\* settles with `response`.
fetchSettles(i, response) ==
  LET parsed == parseSuggestions(response.text)
  IN /\ i \in 1..Len(fetches)
     /\ fetches' = RemoveAt(fetches, i)
     /\ last' = NoEvent
     /\ IF ~response.ok
        THEN /\ chatMessages' = Append(chatMessages,
                  SystemMessage("sys-err-suggestion-fetch", "", clock,
                    << "Error fetching suggestions: " >> \o response.message))
             /\ UNCHANGED initialQuerySuggestions
        ELSE /\ chatMessages' =
                  IF parsed.warn # ""
                  THEN Append(chatMessages,
                         SystemMessage(parsed.warn, "", clock, << parsed.warn >>))
                  ELSE chatMessages
             /\ initialQuerySuggestions' = parsed.list
     /\ isFetchingSuggestions' = FALSE
     /\ UNCHANGED inputVars
     /\ UNCHANGED << knowledgeGroups, activeGroupId, apiKey, selectedModel, isLoading,
                     error, sends, imports, clock >>

\* ------------------------------------------------ ChatInterface: events
\* the disabled attribute of the textarea and of the attach and send buttons;
\* the isLoading prop of ChatInterface is !apiKey || isLoading
inputDisabled == apiKey = << >> \/ isLoading \/ isFetchingSuggestions

\* the number of files of the batches in flight
RECURSIVE SumFiles(_)
SumFiles(batches) ==
  IF batches = << >> THEN 0 ELSE Len(Head(batches).files) + SumFiles(Tail(batches))
PendingImages == SumFiles(imageReads)

\* the textarea's onChange: setUserQuery
setUserQuery(text) ==
  /\ ~inputDisabled
  /\ text # userQuery
  /\ userQuery' = text
  /\ last' = NoEvent
  /\ UNCHANGED << knowledgeGroups, activeGroupId, apiKey, selectedModel, chatMessages,
                  isLoading, isFetchingSuggestions, initialQuerySuggestions, error,
                  sends, fetches, imports, clock, attachedImages, imageReads >>

\* addImages, from the attach button or a paste into the textarea: one read
\* is started for every file; newImages collects the images in load order.
addImages(files) ==
  /\ ~inputDisabled
  /\ Len(files) > 0
  /\ Len(attachedImages) + PendingImages + Len(files) <= MaxAttached
  /\ imageReads' = Append(imageReads,
                      [files |-> files, pending |-> 1..Len(files), failed |-> FALSE,
                       newImages |-> << >>])
  /\ last' = NoEvent
  /\ UNCHANGED << knowledgeGroups, activeGroupId, apiKey, selectedModel, chatMessages,
                  isLoading, isFetchingSuggestions, initialQuerySuggestions, error,
                  sends, fetches, imports, clock, userQuery, attachedImages >>

\* reader.onload of the k-th file of the b-th batch: the image is pushed and
\* its promise resolved; when that was the last promise, Promise.all resolves
\* and its continuation appends newImages to attachedImages.  A batch one of
\* whose promises can no longer resolve is dropped once no read is pending.
readerOnload(b, k) ==
  /\ b \in 1..Len(imageReads)
  /\ k \in imageReads[b].pending
  /\ LET batch == imageReads[b]
         file == batch.files[k]
         newImages == Append(batch.newImages,
                        [name |-> file.name, dataUrl |-> file.dataUrl, type |-> file.type])
         pending == batch.pending \ { k }
     IN IF pending = {}
        THEN /\ imageReads' = RemoveAt(imageReads, b)
             /\ attachedImages' = IF batch.failed THEN attachedImages
                                  ELSE attachedImages \o newImages
        ELSE /\ imageReads' = [imageReads EXCEPT
                                 ![b] = [batch EXCEPT !.pending = pending,
                                                       !.newImages = newImages]]
             /\ UNCHANGED attachedImages
  /\ last' = NoEvent
  /\ UNCHANGED << knowledgeGroups, activeGroupId, apiKey, selectedModel, chatMessages,
                  isLoading, isFetchingSuggestions, initialQuerySuggestions, error,
                  sends, fetches, imports, clock, userQuery >>

\* the read of the k-th file of the b-th batch ends in error: the reader has
\* no onerror handler, so the promise of that file never resolves and
\* Promise.all never does.
readerOnerror(b, k) ==
  /\ b \in 1..Len(imageReads)
  /\ k \in imageReads[b].pending
  /\ LET batch == imageReads[b]
         pending == batch.pending \ { k }
     IN imageReads' = IF pending = {} THEN RemoveAt(imageReads, b)
                      ELSE [imageReads EXCEPT
                              ![b] = [batch EXCEPT !.pending = pending, !.failed = TRUE]]
  /\ last' = NoEvent
  /\ UNCHANGED << knowledgeGroups, activeGroupId, apiKey, selectedModel, chatMessages,
                  isLoading, isFetchingSuggestions, initialQuerySuggestions, error,
                  sends, fetches, imports, clock, userQuery, attachedImages >>

\* the remove button of an attached image: handleRemoveImage
handleRemoveImage(name) ==
  /\ \E i \in 1..Len(attachedImages) : attachedImages[i].name = name
  /\ attachedImages' = filter(attachedImages, LAMBDA img, i : img.name # name)
  /\ last' = NoEvent
  /\ UNCHANGED << knowledgeGroups, activeGroupId, apiKey, selectedModel, chatMessages,
                  isLoading, isFetchingSuggestions, initialQuerySuggestions, error,
                  sends, fetches, imports, clock, userQuery, imageReads >>

\* the send control with the fetch flag left out of its disabled attribute
sendControlDuringFetch ==
  /\ ~(apiKey = << >> \/ isLoading)
  /\ last' = Event("handleSend", << userQuery, attachedImages >>)
  /\ IF handleSendReturns(trim(userQuery), attachedImages, apiKey = << >> \/ isLoading)
     THEN UNCHANGED << chatMessages, isLoading, initialQuerySuggestions, sends, clock,
                       userQuery, attachedImages >>
     ELSE /\ handleSendMessage(trim(userQuery), attachedImages)
          /\ userQuery' = << >>
          /\ attachedImages' = << >>
  /\ UNCHANGED << knowledgeGroups, activeGroupId, apiKey, selectedModel,
                  isFetchingSuggestions, error, fetches, imports, imageReads >>

\* Enter in the textarea or a click on the send button, when they are not
\* disabled: ChatInterface.handleSend on the text typed and the images
\* attached, which it clears after calling onSendMessage.
sendControl ==
  /\ ~inputDisabled
  /\ last' = Event("handleSend", << userQuery, attachedImages >>)
  /\ IF handleSendReturns(trim(userQuery), attachedImages, apiKey = << >> \/ isLoading)
     THEN UNCHANGED << chatMessages, isLoading, initialQuerySuggestions, sends, clock,
                       userQuery, attachedImages >>
     ELSE /\ handleSendMessage(trim(userQuery), attachedImages)
          /\ userQuery' = << >>
          /\ attachedImages' = << >>
  /\ UNCHANGED << knowledgeGroups, activeGroupId, apiKey, selectedModel,
                  isFetchingSuggestions, error, fetches, imports, imageReads >>

\* ------------------------------------------------------------------ Next
RemoveFileInputs == { FileA1.name }

\* the group selector, the credential field and the model selector
ConfigEvent ==
  \/ \E gid \in GroupIds : SetActiveGroupId(gid)
  \/ \E k \in ApiKeyInputs : handleSaveApiKey(k)
  \/ \E m \in ModelInputs : SetSelectedModel(m)

\* the add-URL field and the remove buttons of the listed URLs
UrlEvent ==
  \/ \E u \in UrlInputs : handleAddUrl(u)
  \/ \E u \in UrlInputs : handleRemoveUrl(u)

\* the file picker, the end of an import, the remove buttons of the listed files
FileEvent ==
  \/ \E sel \in Selections : handleFileChange(sel)
  \/ \E i \in 1..Len(imports) : importSettles(i)
  \/ \E n \in RemoveFileInputs : handleRemoveFile(n)

\* the send control, the suggestion buttons and the ends of the remote calls
ChatEvent ==
  \/ \E in \in SendInputs : handleSend(in[1], in[2])
  \/ \E k \in 1..4 : handleSuggestedQueryClick(k)
  \/ \E t \in sends, r \in SendResponses : sendSettles(t, r)
  \/ \E i \in 1..Len(fetches), r \in SuggestionResponses : fetchSettles(i, r)

\* the input box, the attach button, the image strip and the send control
InputEvent ==
  \/ \E text \in QueryInputs : setUserQuery(text)
  \/ \E files \in ImageSelections : addImages(files)
  \/ \E b \in 1..Len(imageReads), k \in 1..2 : readerOnload(b, k)
  \/ \E b \in 1..Len(imageReads), k \in 1..2 : readerOnerror(b, k)
  \/ \E name \in { ImageFileP.name, ImageFileQ.name } : handleRemoveImage(name)
  \/ sendControl

Next == ConfigEvent \/ UrlEvent \/ FileEvent \/ ChatEvent \/ InputEvent

\* The whole application.
Spec == Init /\ [][Next]_vars

\* Knowledge ingestion: the events that read or write knowledgeGroups,
\* activeGroupId, imports and error, started without a credential (no event of
\* this specification reads the credential except to start a suggestion fetch,
\* and none of the four variables depends on the chat state).
IngestInit == Init /\ apiKey = << >>
IngestNext ==
  \/ \E gid \in GroupIds : SetActiveGroupId(gid)
  \/ UrlEvent
  \/ \E sel \in Selections : handleFileChange(sel)
  \/ \E i \in 1..Len(imports) : importSettles(i)
IngestSpec == IngestInit /\ [][IngestNext]_vars

\* Conversation orchestration: every event that reads or writes the
\* transcript, the two flags, the suggestion list or the calls in flight; of
\* the events that change the sources, those of the add-URL field and of the
\* remove buttons of the URLs.
ChatNext == ConfigEvent \/ UrlEvent \/ ChatEvent
ChatSpec == Init /\ [][ChatNext]_vars

\* A remote call in flight settles: the promise of generateContent resolves or
\* rejects.
SendSettles == \E t \in sends, r \in SendResponses : sendSettles(t, r)
FetchSettles == \E i \in 1..Len(fetches), r \in SuggestionResponses : fetchSettles(i, r)

\* The conversation with the selectors and the credential field, under the
\* assumption that every remote call eventually settles.
LiveNext == ConfigEvent \/ ChatEvent
LiveSpec ==
  Init /\ [][LiveNext]_vars /\ WF_vars(SendSettles) /\ WF_vars(FetchSettles)

\* Suggestion fetches and the texts they can return: the group and model
\* selectors start fetches, and each fetch ends with one of ParseResponses.
ParseNext ==
  \/ \E gid \in GroupIds : SetActiveGroupId(gid)
  \/ \E m \in ModelInputs : SetSelectedModel(m)
  \/ \E i \in 1..Len(fetches), r \in ParseResponses : fetchSettles(i, r)
ParseInit == Init /\ apiKey # << >>
ParseSpec == ParseInit /\ [][ParseNext]_vars

\* The add-URL field with every kind of input, the group selector, and the
\* import of five files that fills a group.
UrlNext ==
  \/ \E gid \in GroupIds : SetActiveGroupId(gid)
  \/ \E u \in UrlAttempts : handleAddUrl(u)
  \/ handleFileChange(<< FileA1, FileB, FileC, FileD, FileE >>)
  \/ \E i \in 1..Len(imports) : importSettles(i)
UrlSpec == IngestInit /\ [][UrlNext]_vars

\* File import with selections whose files partly fail: the file picker, the
\* ends of the imports and the group selector.
ReadNext ==
  \/ \E gid \in GroupIds : SetActiveGroupId(gid)
  \/ \E sel \in ReadSelections : handleFileChange(sel)
  \/ \E i \in 1..Len(imports) : importSettles(i)
ReadSpec == IngestInit /\ [][ReadNext]_vars

\* The four operations on the sources of a group, without a credential: the
\* group selector, the add-URL field, the file picker, the remove buttons and
\* the ends of the imports.
FrameNext ==
  \/ \E gid \in GroupIds : SetActiveGroupId(gid)
  \/ UrlEvent
  \/ handleFileChange(<< FileA2, FileF >>)
  \/ \E i \in 1..Len(imports) : importSettles(i)
  \/ \E n \in RemoveFileInputs : handleRemoveFile(n)
FrameSpec == IngestInit /\ [][FrameNext]_vars

\* The input box of the chat: typing, attaching and removing images, the send
\* control, the group selector and the ends of the remote calls.
InputNext ==
  \/ \E gid \in GroupIds : SetActiveGroupId(gid)
  \/ InputEvent
  \/ \E t \in sends : sendSettles(t, CHOOSE r \in SendResponses : r.ok)
  \/ \E i \in 1..Len(fetches) : fetchSettles(i, OkText(<< >>))
InputSpec == ParseInit /\ [][InputNext]_vars

\* Sources and conversation together: the group selector, the credential
\* field, the file picker, the remove buttons of the files and of one listed
\* URL, one typed message and the ends of the imports and of the remote
\* calls.
ResetNext ==
  \/ \E gid \in GroupIds : SetActiveGroupId(gid)
  \/ \E k \in ApiKeyInputs : handleSaveApiKey(k)
  \/ handleRemoveUrl(Url(GEMINI_DOCS_URLS[1]))
  \/ handleFileChange(<< FileA2 >>)
  \/ \E i \in 1..Len(imports) : importSettles(i)
  \/ \E n \in RemoveFileInputs : handleRemoveFile(n)
  \/ handleSend(<< "h", "i" >>, << >>)
  \/ \E t \in sends : sendSettles(t, CHOOSE r \in SendResponses : r.ok)
  \/ \E i \in 1..Len(fetches) : fetchSettles(i, OkText(<< >>))
ResetSpec == ParseInit /\ [][ResetNext]_vars

\* ============================================================ properties
Groups == 1..Len(knowledgeGroups)
Messages == 1..Len(chatMessages)
FileNames(files) == { files[i].name : i \in 1..Len(files) }
PlaceholderId(t) == MsgId("model-response", "", t)
SendOps == { "handleSend", "handleSuggestedQueryClick" }

\* ---- C1 -----------------------------------------------------------------
\* C1: in every reachable state every knowledge group holds at most
\* MAX_SOURCES sources (URLs plus files), whatever the interleaving of
\* add-URL, remove and import batches.
C1_SourceCap ==
  \A g \in Groups : totalSourcesOf(knowledgeGroups[g]) <= MAX_SOURCES

\* ---- C2 -----------------------------------------------------------------
\* the placeholder of the send made at time t is in the transcript, loading
Loading(t) ==
  \E i \in Messages : chatMessages[i].id = PlaceholderId(t) /\ chatMessages[i].isLoading

\* the transcript holds exactly one message for the send made at time t, and
\* it is terminal: a model or a system message that is not loading
Terminal(t) ==
  /\ Cardinality({ i \in Messages : chatMessages[i].id = PlaceholderId(t) }) = 1
  /\ \E i \in Messages :
       /\ chatMessages[i].id = PlaceholderId(t)
       /\ ~chatMessages[i].isLoading
       /\ chatMessages[i].sender \in { MODEL, SYSTEM }

C3_NoSettledLoading ==
  \A i \in Messages :
    chatMessages[i].isLoading =>
      \E t \in sends : chatMessages[i].id = PlaceholderId(t)

\* a call has failed and its placeholder is now a system error message
C3_Witness ==
  \E i \in Messages :
    /\ chatMessages[i].id[1] = "model-response"
    /\ chatMessages[i].sender = SYSTEM
    /\ ~chatMessages[i].isLoading
    /\ chatMessages[i].id[3] \notin sends

\* ---- C4 -----------------------------------------------------------------
\* C4: at most one message is loading and at most one chat call is
\* outstanding, and a send attempted while isLoading appends nothing and
\* issues no call.
C4_SingleSend ==
  /\ [](/\ Cardinality({ i \in Messages : chatMessages[i].isLoading }) <= 1
        /\ Cardinality(sends) <= 1)
  /\ [][ (last'.op \in SendOps /\ isLoading) =>
           (chatMessages' = chatMessages /\ sends' = sends) ]_vars

\* a displayed suggestion was clicked while the call of an earlier send was
\* outstanding (its messages were discarded by a transcript reset, after
\* which suggestions were fetched again), and the click added no message
C4_Witness ==
  /\ last.op = "handleSuggestedQueryClick"
  /\ trim(last.arg[1]) # << >>
  /\ isLoading
  /\ Cardinality(sends) = 1
  /\ \A i \in Messages : chatMessages[i].sender = SYSTEM

\* ---- C5 -----------------------------------------------------------------
\* C5: a step that accepts a send (issues a chat call) starts in a state in
\* which no suggestion fetch is outstanding.
C5_SendOnlyWithoutFetch ==
  [][ (sends' # sends /\ sends \subseteq sends') => Len(fetches) = 0 ]_vars

\* ---- C6 -----------------------------------------------------------------
\* C6: at most one suggestion fetch is outstanding.
C6_AtMostOneFetch == Len(fetches) <= 1

\* ---- C7 -----------------------------------------------------------------
\* the last event was a send whose text is empty or blank and without images
EmptySend ==
  /\ last.op \in SendOps
  /\ trim(last.arg[1]) = << >>
  /\ Len(last.arg[2]) = 0

\* C7: a send with empty or blank text and no images changes nothing (no
\* message, no flag, no suggestion, no call), with or without a credential.
C7_EmptySendNoEffect ==
  [][ EmptySend' =>
        UNCHANGED << knowledgeGroups, activeGroupId, apiKey, selectedModel,
                     chatMessages, isLoading, isFetchingSuggestions,
                     initialQuerySuggestions, error, sends, fetches, imports,
                     clock >> ]_vars

\* a blank suggestion was clicked in a state that accepts a send
C7_Witness ==
  /\ EmptySend
  /\ last.op = "handleSuggestedQueryClick"
  /\ apiKey # << >>
  /\ ~isLoading
  /\ ~isFetchingSuggestions

\* ---- C8 -----------------------------------------------------------------
\* the selection has more new names than the active group has room for
ExceedsCap(selectedFiles) ==
  totalSourcesOf(currentGroup)
    + Cardinality({ i \in 1..Len(selectedFiles) :
                      selectedFiles[i].name \notin FileNames(currentFiles) })
    > MAX_SOURCES

\* C8: a selection whose new names do not fit under the cap starts no import
\* batch, changes no group, and leaves a source-limit error.
C8_ExceedingBatchRejected ==
  [][ \A selectedFiles \in Selections :
        (handleFileChange(selectedFiles) /\ ExceedsCap(selectedFiles)) =>
          /\ imports' = imports
          /\ knowledgeGroups' = knowledgeGroups
          /\ error'.kind \in { "files-exceed", "files-max" } ]_vars

\* a batch was refused although the group still had room for some sources
C8_Witness ==
  /\ error.kind = "files-exceed"
  /\ totalSourcesOf(currentGroup) < MAX_SOURCES
  /\ imports = << >>

\* ---- C9 -----------------------------------------------------------------
\* the files of the group with the given id
FilesOf(groups, gid) == FindGroup(groups, gid).files

\* C9: when a batch commits, the files the group already had stay as they
\* were (same order, same content), only files with new names are appended,
\* and committing the same files again changes nothing.
C9_AddFilesFirstWins ==
  /\ [][ last'.op = "importSettles" =>
           LET gid == last'.arg[1]
               newFiles == last'.arg[2]
               before == FilesOf(knowledgeGroups, gid)
               after == FilesOf(knowledgeGroups', gid)
           IN /\ Len(after) >= Len(before)
              /\ \A i \in 1..Len(before) : after[i] = before[i]
              /\ \A i \in (Len(before) + 1)..Len(after) :
                   /\ after[i].name \notin FileNames(before)
                   /\ \E j \in 1..Len(newFiles) : newFiles[j] = after[i]
              /\ FileNames(after) = FileNames(before) \cup FileNames(newFiles) ]_vars
  /\ [](\A b \in 1..Len(imports) :
          LET once == AppHandleAddFiles(knowledgeGroups, imports[b].gid, imports[b].files)
          IN AppHandleAddFiles(once, imports[b].gid, imports[b].files) = once)

\* a batch has committed a file whose name the group already held with
\* another content
C9_Witness ==
  /\ last.op = "importSettles"
  /\ \E j \in 1..Len(last.arg[2]) :
       \E i \in 1..Len(FilesOf(knowledgeGroups, last.arg[1])) :
         /\ FilesOf(knowledgeGroups, last.arg[1])[i].name = last.arg[2][j].name
         /\ FilesOf(knowledgeGroups, last.arg[1])[i].content # last.arg[2][j].content

\* ---- C10 ----------------------------------------------------------------
\* C10: in every group no URL occurs twice and no two files share a name.
C10_UniqueSources ==
  \A g \in Groups :
    LET group == knowledgeGroups[g]
    IN /\ \A i, j \in 1..Len(group.urls) : group.urls[i] = group.urls[j] => i = j
       /\ \A i, j \in 1..Len(group.files) :
            group.files[i].name = group.files[j].name => i = j

\* a group holds a file while a batch in flight for that group still carries
\* a file of the same name
C10_Witness ==
  \E b \in 1..Len(imports) :
    \E j \in 1..Len(imports[b].files) :
      imports[b].files[j].name \in FileNames(FilesOf(knowledgeGroups, imports[b].gid))

\* ---- C11 ----------------------------------------------------------------
\* the last event was a send with some text or some image
NonEmptySend ==
  /\ last.op \in SendOps
  /\ (trim(last.arg[1]) # << >> \/ Len(last.arg[2]) > 0)

\* the step appended one system message about the missing credential
AppendsKeyError ==
  /\ Len(chatMessages') = Len(chatMessages) + 1
  /\ SubSeq(chatMessages', 1, Len(chatMessages)) = chatMessages
  /\ chatMessages'[Len(chatMessages')].sender = SYSTEM
  /\ chatMessages'[Len(chatMessages')].id[1] = "error-apikey"

\* C11: a step that issues a remote call (a chat call or a suggestion fetch)
\* ends in a state with a credential; a non-empty send attempted without a
\* credential issues no call, leaves isLoading as it is and changes the
\* transcript at most by appending one system error message; when it reaches
\* handleSendMessage with no send and no fetch flagged, it appends that
\* message and isLoading is false.
C11_NoCallWithoutCredential ==
  /\ [][ ((sends' # sends /\ sends \subseteq sends') \/ Len(fetches') > Len(fetches))
           => apiKey' # << >> ]_vars
  /\ [][ (NonEmptySend' /\ apiKey = << >>) =>
           /\ sends' = sends
           /\ fetches' = fetches
           /\ isLoading' = isLoading
           /\ (chatMessages' = chatMessages \/ AppendsKeyError)
           /\ (last'.op = "handleSuggestedQueryClick" /\ ~isLoading /\ ~isFetchingSuggestions)
                => (AppendsKeyError /\ ~isLoading') ]_vars

\* a suggestion was clicked without a credential and the system error
\* message is the last message of the transcript
C11_Witness ==
  /\ NonEmptySend
  /\ apiKey = << >>
  /\ ~isLoading
  /\ sends = {}
  /\ chatMessages[Len(chatMessages)].id[1] = "error-apikey"

\* ---- C12 ----------------------------------------------------------------
\* the step keeps every message and may append some at the end
AppendsAtEnd ==
  /\ Len(chatMessages') >= Len(chatMessages)
  /\ SubSeq(chatMessages', 1, Len(chatMessages)) = chatMessages

\* the step changes exactly one message, a loading placeholder, into a
\* message with the same id that is not loading
ReplacesOnePlaceholder ==
  /\ Len(chatMessages') = Len(chatMessages)
  /\ \E i \in Messages :
       /\ chatMessages[i].isLoading
       /\ chatMessages'[i].id = chatMessages[i].id
       /\ ~chatMessages'[i].isLoading
       /\ \A j \in Messages \ {i} : chatMessages'[j] = chatMessages[j]

\* C12: the transcript is append-only: every step leaves it unchanged,
\* appends messages at its end, or replaces one loading placeholder in place.
C12_AppendOnly ==
  [][ AppendsAtEnd \/ ReplacesOnePlaceholder ]_vars

\* ---- C13 ----------------------------------------------------------------
\* the files of a batch whose read promise is fulfilled / rejected
Fulfilled(batch) == { batch.files[k] : k \in { j \in 1..Len(batch.files) : readPromise(batch.files[j]).ok } }
Rejected(batch) == { batch.files[k] : k \in { j \in 1..Len(batch.files) : ~readPromise(batch.files[j]).ok } }

\* the step reports exactly the rejected files of the batch in one error, and
\* leaves the error alone when there is none
ReportsRejected(batch) ==
  IF Rejected(batch) = {} THEN error' = error
  ELSE /\ error'.kind = "import-errors"
       /\ Len(error'.detail) = Cardinality(Rejected(batch))
       /\ { error'.detail[k][2] : k \in 1..Len(error'.detail) }
            = { f.name : f \in Rejected(batch) }

\* the step changes no group but the batch's, keeps the files that group had
\* and appends only fulfilled files of the batch
CommitsInto(batch) ==
  LET before == FilesOf(knowledgeGroups, batch.gid)
      after == FilesOf(knowledgeGroups', batch.gid)
  IN /\ \A g \in Groups :
          /\ knowledgeGroups'[g].urls = knowledgeGroups[g].urls
          /\ knowledgeGroups[g].id # batch.gid => knowledgeGroups'[g] = knowledgeGroups[g]
     /\ Len(after) >= Len(before)
     /\ SubSeq(after, 1, Len(before)) = before
     /\ \A j \in (Len(before) + 1)..Len(after) :
          \E f \in Fulfilled(batch) : after[j] = readPromise(f).value

AppendsSuggestionWarning ==
  /\ Len(chatMessages') = Len(chatMessages) + 1
  /\ SubSeq(chatMessages', 1, Len(chatMessages)) = chatMessages
  /\ chatMessages'[Len(chatMessages')].sender = SYSTEM
  /\ chatMessages'[Len(chatMessages')].id[1]
       \in { "sys-err-suggestion-parse", "sys-err-suggestion-fmt" }

\* C14: when a suggestion fetch returns a text that is not (optionally
\* fenced) JSON of an object with an array-valued suggestions field, the
\* empty text included, the suggestion list is empty afterwards and a system
\* warning has been appended to the transcript.
C14_MalformedSuggestionsWarn ==
  [][ \A i \in 1..Len(fetches), text \in NonConformingTexts :
        fetchSettles(i, OkText(text)) =>
          /\ initialQuerySuggestions' = << >>
          /\ AppendsSuggestionWarning ]_vars

\* ---- C15 ----------------------------------------------------------------
\* C15: when a suggestion fetch returns the JSON text J of an object with a
\* suggestions array wrapped in a fenced block with a language tag T, the
\* suggestion list is afterwards the one that parsing J unwrapped yields.
C15_FenceTransparent ==
  [][ \A i \in 1..Len(fetches), tag \in LanguageTags :
        fetchSettles(i, OkText(Fenced(tag, SuggestionsJson))) =>
          initialQuerySuggestions' = parseSuggestions(SuggestionsJson).list ]_vars

\* ---- C16 ----------------------------------------------------------------
\* the number of messages of the transcript that are not system messages
NonSystemCount ==
  Cardinality({ i \in Messages : chatMessages[i].sender # SYSTEM })

\* C16: whenever the transcript holds more than one non-system message, the
\* suggestions are not displayed, whatever the suggestion list holds, and no
\* suggestion is clicked in such a state.
C16_SuggestionsSuppressed ==
  /\ [](NonSystemCount > 1 => ~showSuggestions(initialQuerySuggestions, chatMessages))
  /\ [][ last'.op = "handleSuggestedQueryClick" => NonSystemCount <= 1 ]_vars

\* a suggestion fetch has returned suggestions after the conversation started
C16_Witness ==
  /\ NonSystemCount > 1
  /\ Len(initialQuerySuggestions) > 0

\* ---- C17 ----------------------------------------------------------------
\* the input is empty or blank, is not a well-formed absolute URL, is listed
\* in the active group already, or the active group is full
AddUrlRefused(currentUrlInput) ==
  \/ trim(currentUrlInput) = << >>
  \/ ~isValidUrl(currentUrlInput)
  \/ \E k \in 1..Len(currentUrls) : currentUrls[k] = currentUrlInput
  \/ totalSourcesOf(currentGroup) >= MAX_SOURCES

\* C17: an add-URL attempt that must be refused changes no group and leaves
\* an inline error; any other attempt appends the URL at the end of the
\* active group's urls, changes nothing else in any group, and clears the
\* error.
C17_AddUrlValidated ==
  [][ \A currentUrlInput \in UrlAttempts :
        handleAddUrl(currentUrlInput) =>
          IF AddUrlRefused(currentUrlInput)
          THEN /\ knowledgeGroups' = knowledgeGroups
               /\ error'.kind \in { "url-empty", "url-invalid", "url-max", "url-dup" }
          ELSE /\ \A g \in Groups :
                    knowledgeGroups'[g] =
                      IF knowledgeGroups[g].id = activeGroupId
                      THEN [knowledgeGroups[g] EXCEPT
                              !.urls = Append(knowledgeGroups[g].urls, currentUrlInput)]
                      ELSE knowledgeGroups[g]
               /\ error' = NoError ]_vars

\* a URL was refused because the active group is full
C17_Witness ==
  /\ error.kind = "url-max"
  /\ totalSourcesOf(currentGroup) = MAX_SOURCES

\* ---- C18 ----------------------------------------------------------------
\* the extensions of the structured-text formats and of all supported formats
StructuredTextExtensions ==
  { "txt", "js", "ts", "jsx", "tsx", "json", "md", "html", "css", "py" }
SupportedExtensions == StructuredTextExtensions \cup { "docx", "xlsx", "pdf" }

\* the error of the step names the file with the given message
ErrorNames(file, message) ==
  /\ error'.kind = "import-errors"
  /\ \E k \in 1..Len(error'.detail) : error'.detail[k] = << message, file.name >>

\* C18: when a batch settles, every file of it whose format is not a
\* supported one is reported as not supported and is not added to the group.
C18_UnsupportedRejected ==
  [][ \A i \in 1..Len(imports) : importSettles(i) =>
        \A k \in 1..Len(imports[i].files) :
          LET file == imports[i].files[k]
          IN fileExtension(file) \notin SupportedExtensions =>
               /\ ErrorNames(file, "is not supported")
               /\ file.name \in FileNames(FilesOf(knowledgeGroups', imports[i].gid))
                    => file.name \in FileNames(FilesOf(knowledgeGroups, imports[i].gid)) ]_vars

\* ---- C19 ----------------------------------------------------------------
\* C19: a step that starts a batch or leaves the batches in flight as they
\* are changes no group's file list; the file lists change only in the step
\* in which one batch settles, and then only the list of that batch's group,
\* by the fulfilled files of that batch, all at once.
C19_CommitAfterJoin ==
  [][ /\ Len(imports') >= Len(imports) =>
           \A g \in Groups : knowledgeGroups'[g].files = knowledgeGroups[g].files
      /\ (\E g \in Groups : knowledgeGroups'[g].files # knowledgeGroups[g].files) =>
           \E i \in 1..Len(imports) :
             /\ imports' = RemoveAt(imports, i)
             /\ CommitsInto(imports[i])
             /\ FileNames(FilesOf(knowledgeGroups', imports[i].gid))
                  = FileNames(FilesOf(knowledgeGroups, imports[i].gid))
                      \cup { f.name : f \in Fulfilled(imports[i]) } ]_vars

\* a batch of several files has been committed to a group that is no longer
\* the active one: the group was switched while the batch was being read
C19_Witness ==
  /\ last.op = "importSettles"
  /\ Len(last.arg[2]) >= 2
  /\ last.arg[1] # activeGroupId
  /\ \A k \in 1..Len(last.arg[2]) :
       last.arg[2][k].name \in FileNames(FilesOf(knowledgeGroups, last.arg[1]))

\* ---- C20 ----------------------------------------------------------------
\* C20: when a batch settles, every file of it with a structured-text
\* extension that could be read, and whose name the group did not hold, is in
\* the group with its text as content, whatever the text.
C20_TextVerbatim ==
  [][ \A i \in 1..Len(imports) : importSettles(i) =>
        \A k \in 1..Len(imports[i].files) :
          LET file == imports[i].files[k]
          IN (/\ fileExtension(file) \in StructuredTextExtensions
              /\ file.readable
              /\ file.name \notin FileNames(FilesOf(knowledgeGroups, imports[i].gid)))
             => \E j \in 1..Len(FilesOf(knowledgeGroups', imports[i].gid)) :
                  FilesOf(knowledgeGroups', imports[i].gid)[j]
                    = [name |-> file.name, content |-> file.text] ]_vars

\* ---- C21 ----------------------------------------------------------------
\* the positions of the transcript that hold the placeholder of the send
\* made at time t
PlaceholderAt(t) == { i \in Messages : chatMessages[i].id = PlaceholderId(t) }

InputEnabled == ~isLoading /\ ~isFetchingSuggestions

\* C22: if every remote call eventually settles, then from every reachable
\* state a state with isLoading = false and isFetchingSuggestions = false is
\* eventually reached, whether the calls succeed or fail.
C22_FlagsEventuallyClear == []<>InputEnabled

\* a suggestion fetch and a send have both failed, both errors are in the
\* transcript, and neither flag is set
C22_Witness ==
  /\ InputEnabled
  /\ sends = {}
  /\ fetches = << >>
  /\ \E i \in Messages : chatMessages[i].id[1] = "sys-err-suggestion-fetch"
  /\ \E i \in Messages :
       chatMessages[i].id[1] = "model-response" /\ chatMessages[i].sender = SYSTEM

\* ---- C23 ----------------------------------------------------------------
\* the string entries of the suggestions arrays found in the texts of the
\* suggestion responses
ResponseStrings ==
  UNION { UNION { { r.text[k].val[1].items[j].value :
                      j \in { n \in 1..Len(r.text[k].val[1].items) :
                                r.text[k].val[1].items[n].type = "string" } } :
                  k \in { n \in 1..Len(r.text) :
                            r.text[n].lex = "json" /\ r.text[n].val[1].hasArray } } :
          r \in ParseResponses }

\* C23: the suggestion list holds at most four entries, and each of them is
\* a string entry of the suggestions array of a suggestion response.
C23_AtMostFourStrings ==
  /\ Len(initialQuerySuggestions) <= 4
  /\ \A k \in 1..Len(initialQuerySuggestions) :
       initialQuerySuggestions[k] \in ResponseStrings

\* a response with six entries, the second a number, has left four
\* suggestions: the number was dropped and the fifth string cut off
C23_Witness ==
  /\ Len(initialQuerySuggestions) = 4
  /\ initialQuerySuggestions[2] = << "B", "?" >>
  /\ initialQuerySuggestions[4] = << "D", "?" >>

\* ---- C24 ----------------------------------------------------------------
\* the step changes the urls or the files of some group
SourcesChange ==
  \E g \in Groups :
    \/ knowledgeGroups'[g].urls # knowledgeGroups[g].urls
    \/ knowledgeGroups'[g].files # knowledgeGroups[g].files

\* C24: a step that changes the active group id, the sources of a group or
\* the credential leaves a transcript of exactly one message, the system
\* welcome message of the new state; every earlier message is gone, the user
\* message and the loading placeholder of a send in flight included.
C24_ChangeResetsTranscript ==
  [][ (activeGroupId' # activeGroupId \/ SourcesChange \/ apiKey' # apiKey) =>
        /\ Len(chatMessages') = 1
        /\ chatMessages'[1] =
             WelcomeMessage(knowledgeGroups', activeGroupId', apiKey', clock)
        /\ chatMessages'[1].sender = SYSTEM
        /\ ~chatMessages'[1].isLoading ]_vars

\* an import has committed a file while a send was in flight: the transcript
\* is the welcome message alone and the call is still outstanding
C24_Witness ==
  /\ last.op = "importSettles"
  /\ Len(last.arg[2]) > 0
  /\ sends # {}
  /\ isLoading
  /\ Len(chatMessages) = 1
  /\ chatMessages[1].id[1] = "system-welcome"

\* ---- C25 ----------------------------------------------------------------
\* C25: isFetchingSuggestions is true in every state in which a suggestion
\* fetch is outstanding.
C25_FlagCoversFetches == Len(fetches) > 0 => isFetchingSuggestions

\* ---- C26 ----------------------------------------------------------------
\* C26: when the last outstanding suggestion fetch settles and it was started
\* for a group that is no longer the active one (so a fetch for the active
\* group was started after it and has settled already), its response does
\* not change the suggestion list.
C26_StaleSuggestionsDropped ==
  [][ \A r \in ParseResponses :
        (fetchSettles(1, r) /\ Len(fetches) = 1 /\ fetches[1].gid # activeGroupId)
          => initialQuerySuggestions' = initialQuerySuggestions ]_vars

\* ---- C27 ----------------------------------------------------------------
\* a call is outstanding and the transcript no longer holds its placeholder:
\* the transcript was reset after the send
StaleSend == sends # {} /\ \A t \in sends : PlaceholderAt(t) = {}

\* C27: when the call of a send settles after the transcript was reset, with
\* a result or with an error, the transcript is left as it is and isLoading
\* becomes false, nothing else changes; and while such a call is outstanding
\* a send attempt appends no message and issues no call.
C27_LateResponseDropped ==
  /\ [][ \A t \in sends, response \in SendResponses :
           (sendSettles(t, response) /\ PlaceholderAt(t) = {}) =>
             /\ chatMessages' = chatMessages
             /\ ~isLoading'
             /\ UNCHANGED << knowledgeGroups, activeGroupId, apiKey, selectedModel,
                             isFetchingSuggestions, initialQuerySuggestions, error,
                             fetches, imports, clock >> ]_vars
  /\ [][ (StaleSend /\ last'.op \in SendOps) =>
           (chatMessages' = chatMessages /\ sends' = sends /\ isLoading') ]_vars

\* a message was typed and sent with a credential while the call of an
\* earlier send, whose messages a reset has discarded, was outstanding: the
\* transcript holds system messages only
C27_Witness ==
  /\ StaleSend
  /\ last.op = "handleSend"
  /\ trim(last.arg[1]) # << >>
  /\ apiKey # << >>
  /\ \A i \in Messages : chatMessages[i].sender = SYSTEM

\* ---- C28 ----------------------------------------------------------------
\* the step changes at most the urls of the group with the given id
ChangesOnlyUrlsOf(gid) ==
  \A g \in Groups :
    /\ knowledgeGroups'[g].files = knowledgeGroups[g].files
    /\ knowledgeGroups[g].id # gid => knowledgeGroups'[g] = knowledgeGroups[g]

\* the step changes at most the files of the group with the given id
ChangesOnlyFilesOf(gid) ==
  \A g \in Groups :
    /\ knowledgeGroups'[g].urls = knowledgeGroups[g].urls
    /\ knowledgeGroups[g].id # gid => knowledgeGroups'[g] = knowledgeGroups[g]

\* C28: no step changes the number, the ids or the names of the groups;
\* add-URL and remove-URL change at most the urls of the active group,
\* remove-file at most the files of the active group, and the commit of an
\* import batch at most the files of the group that was active when its
\* files were selected, whichever group is active when it commits.
C28_OnlyTargetGroupChanges ==
  [][ /\ Len(knowledgeGroups') = Len(knowledgeGroups)
      /\ \A g \in Groups :
           /\ knowledgeGroups'[g].id = knowledgeGroups[g].id
           /\ knowledgeGroups'[g].name = knowledgeGroups[g].name
      /\ \A u \in UrlInputs :
           (handleAddUrl(u) \/ handleRemoveUrl(u)) => ChangesOnlyUrlsOf(activeGroupId)
      /\ \A n \in RemoveFileInputs :
           handleRemoveFile(n) => ChangesOnlyFilesOf(activeGroupId)
      /\ \A i \in 1..Len(imports) :
           importSettles(i) => ChangesOnlyFilesOf(imports[i].gid) ]_vars

\* a batch selected for one group has committed while another group was
\* active: its file is in the group it was selected for, and the active
\* group has no file
C28_Witness ==
  /\ last.op = "importSettles"
  /\ last.arg[1] # activeGroupId
  /\ Len(last.arg[2]) > 0
  /\ last.arg[2][1].name \in FileNames(FilesOf(knowledgeGroups, last.arg[1]))
  /\ currentFiles = << >>

\* ---- C29 ----------------------------------------------------------------
\* the step is a handleSend that empties an input box holding a text or an
\* image
ClearsInput ==
  /\ last'.op = "handleSend"
  /\ (userQuery # << >> \/ attachedImages # << >>)
  /\ userQuery' = << >>
  /\ attachedImages' = << >>

\* the step appended the user message of the typed text and the attached
\* images, and the placeholder after it
AppendsUserMessage ==
  /\ Len(chatMessages') = Len(chatMessages) + 2
  /\ SubSeq(chatMessages', 1, Len(chatMessages)) = chatMessages
  /\ chatMessages'[Len(chatMessages) + 1] =
       userMessage(trim(userQuery), attachedImages, clock')

\* C29: a handleSend that clears the typed text and the attached images has
\* appended the user message or the missing-credential error; and a
\* handleSend in a state in which handleSendMessage ignores the call (nothing
\* to send, a send flagged or a suggestion fetch flagged) leaves the typed
\* text and the attached images as they are.
C29_InputClearedOnlyWhenSent ==
  /\ [][ ClearsInput => (AppendsUserMessage \/ AppendsKeyError) ]_vars
  /\ [][ (last'.op = "handleSend"
            /\ sendIgnored(userQuery, attachedImages, isLoading, isFetchingSuggestions))
           => (userQuery' = userQuery /\ attachedImages' = attachedImages) ]_vars

\* a typed message with an attached image was sent and cleared while a
\* suggestion fetch was in flight (its flag cleared by an earlier fetch), and
\* the user message with the image is in the transcript
C29_Witness ==
  /\ last.op = "handleSend"
  /\ trim(last.arg[1]) # << >>
  /\ Len(last.arg[2]) > 0
  /\ userQuery = << >>
  /\ attachedImages = << >>
  /\ Len(fetches) > 0
  /\ \E i \in Messages :
       chatMessages[i].sender = USER /\ Len(chatMessages[i].images) > 0

\* ---- C30 ----------------------------------------------------------------
\* the image that a successful read of the file yields
ImageOf(file) == [name |-> file.name, dataUrl |-> file.dataUrl, type |-> file.type]

\* C30: when the last read of a batch passed to addImages ends, in success
\* or in error, the images of the batch that were read successfully are
\* appended to attachedImages, whether or not a read of the batch failed.
C30_BatchCommitted ==
  [][ \A b \in 1..Len(imageReads) : \A k \in 1..Len(imageReads[b].files) :
        imageReads[b].pending = { k } =>
          /\ readerOnload(b, k) =>
               attachedImages' = attachedImages \o
                 Append(imageReads[b].newImages, ImageOf(imageReads[b].files[k]))
          /\ readerOnerror(b, k) =>
               attachedImages' = attachedImages \o imageReads[b].newImages ]_vars
====
